---- MODULE Spec2Model ----
(***************************************************************************)
(* Model of the viralbox shortener bot (src/shortener.py): the webhook     *)
(* ingress (WebhookHandler.do_POST), the per-message processing task       *)
(* (process_message), the credential / settings / link stores and the      *)
(* caption builder (build_caption).                                        *)
(*                                                                         *)
(* Strings are sequences of one-character strings, so that strip, split,   *)
(* startswith, the URL regular expression and "\n".join are computed on    *)
(* characters as the code computes them.                                   *)
(***************************************************************************)
EXTENDS Integers, Sequences, FiniteSets, TLC

VARIABLES
    apis,            \* user_apis_col: userId -> apiKey, or None when no document
    settings,        \* user_settings_col: userId -> document, or NoDoc
    links,           \* links_col: the appended LinkRecords, in insertion order
    total_requests,  \* global total_requests
    last_activity,   \* global last_activity, as the logical time of the last dispatch
    resp,            \* the last HTTP exchange of do_POST: request and status code
    tasks,           \* the threads running process_message, by spawn order
    probe,           \* arguments and result of the last direct call of a helper
    boot             \* history: the stores as they were when the process started

vars == <<apis, settings, links, total_requests, last_activity, resp, tasks, probe, boot>>

(***************************************************************************)
(* Bounds of the model.                                                    *)
(***************************************************************************)
MaxRequests == 2     \* message deliveries accepted in one run

\* Every Python string is a sequence of characters; the values that stand
\* where a string could stand are sequences too, of one word no string holds.
None == <<"None">>       \* Python's None
Absent == <<"Absent">>   \* a field that is not in a document

\* find_one found no document
NoDoc == [userId |-> 0, header |-> Absent, footer |-> Absent, caption_mode |-> Absent]

Users == {1, 2}

(***************************************************************************)
(* Characters and strings.                                                 *)
(***************************************************************************)
WS == {" ", "\n"}

IsSpace(c) == c \in WS

RECURSIVE LStrip(_)
LStrip(s) == IF s # <<>> /\ IsSpace(Head(s)) THEN LStrip(Tail(s)) ELSE s

RECURSIVE RStrip(_)
RStrip(s) ==
    IF s # <<>> /\ IsSpace(s[Len(s)]) THEN RStrip(SubSeq(s, 1, Len(s) - 1)) ELSE s

\* str.strip()
Strip(s) == RStrip(LStrip(s))

\* str.startswith(p)
StartsWith(s, p) == Len(s) >= Len(p) /\ SubSeq(s, 1, Len(p)) = p

\* the index of the first whitespace character of s at or after i, Len(s)+1 if none
RECURSIVE NextSpace(_, _)
NextSpace(s, i) ==
    IF i > Len(s) THEN Len(s) + 1
    ELSE IF IsSpace(s[i]) THEN i
    ELSE NextSpace(s, i + 1)

\* str.split(maxsplit=1): the first word and, when something follows the
\* whitespace after it, the rest of the string with that whitespace skipped
SplitMax1(s) ==
    LET t == LStrip(s)
        e == NextSpace(t, 1)
        rest == LStrip(SubSeq(t, e, Len(t)))
    IN  IF t = <<>> THEN <<>>
        ELSE IF rest = <<>> THEN <<SubSeq(t, 1, e - 1)>>
        ELSE <<SubSeq(t, 1, e - 1), rest>>

\* "\n".join(parts)
RECURSIVE Join(_)
Join(parts) ==
    IF parts = <<>> THEN <<>>
    ELSE IF Len(parts) = 1 THEN parts[1]
    ELSE parts[1] \o <<"\n">> \o Join(Tail(parts))

Http == <<"h", "t", "t", "p", ":", "/", "/">>
Https == <<"h", "t", "t", "p", "s", ":", "/", "/">>

\* the length of the scheme matched by https?:// at position i of s, 0 if none
SchemeAt(s, i) ==
    LET r == SubSeq(s, i, Len(s))
    IN  IF StartsWith(r, Https) THEN Len(Https)
        ELSE IF StartsWith(r, Http) THEN Len(Http)
        ELSE 0

\* re.findall(r'(https?://[^\s]+)', s) from position i on
RECURSIVE FindAll(_, _)
FindAll(s, i) ==
    IF i > Len(s) THEN <<>>
    ELSE LET n == SchemeAt(s, i)
             e == NextSpace(s, i + n)
         IN  IF n > 0 /\ e > i + n
             THEN <<SubSeq(s, i, e - 1)>> \o FindAll(s, e)
             ELSE FindAll(s, i + 1)

extract_urls(text) == IF text = None \/ text = <<>> THEN <<>> ELSE FindAll(text, 1)

(***************************************************************************)
(* The stores and their helpers.  A write is given the outcome of the      *)
(* storage call: ok = FALSE is a call that raised.                         *)
(***************************************************************************)
Fields == {"header", "footer", "caption_mode"}

KeepMode == <<"k", "e", "e", "p">>
RemoveMode == <<"r", "e", "m", "o", "v", "e">>

DefaultSettings == [header |-> <<>>, footer |-> <<>>, caption_mode |-> RemoveMode]

\* dict.get(field, default) on a settings document
DocGet(doc, field, default) == IF doc[field] = Absent THEN default ELSE doc[field]

\* get_user_api_key: the stored key, None without a document or when the read raised
get_user_api_key(col, user_id, ok) == IF ok THEN col[user_id] ELSE None

\* the except clause returning True: a failed upsert reported as saved
save_user_api_key_reports_saved(col, user_id, api_key, ok) ==
    IF ok THEN [col |-> [col EXCEPT ![user_id] = api_key], ret |-> TRUE]
    ELSE [col |-> col, ret |-> TRUE]

\* save_user_api_key: the collection after the upsert and the value returned
save_user_api_key(col, user_id, api_key, ok) ==
    IF ok THEN [col |-> [col EXCEPT ![user_id] = api_key], ret |-> TRUE]
    ELSE [col |-> col, ret |-> FALSE]

\* get_user_settings: the record read, all defaults without a document or
\* when the read raised
\* the except clause returning a record of its own: KEEP in place of REMOVE
get_user_settings_keep_on_error(col, user_id, ok) ==
    IF ok /\ col[user_id] # NoDoc
    THEN [header |-> DocGet(col[user_id], "header", <<>>),
          footer |-> DocGet(col[user_id], "footer", <<>>),
          caption_mode |-> DocGet(col[user_id], "caption_mode", RemoveMode)]
    ELSE IF ok THEN DefaultSettings
    ELSE [DefaultSettings EXCEPT !.caption_mode = KeepMode]

get_user_settings(col, user_id, ok) ==
    IF ok /\ col[user_id] # NoDoc
    THEN [header |-> DocGet(col[user_id], "header", <<>>),
          footer |-> DocGet(col[user_id], "footer", <<>>),
          caption_mode |-> DocGet(col[user_id], "caption_mode", RemoveMode)]
    ELSE DefaultSettings

\* the filter on userId lost: the field is set in the document of every user
update_user_setting_everyone(col, user_id, field, value, ok) ==
    IF ok
    THEN [col |-> [x \in DOMAIN col |-> [col[x] EXCEPT !.userId = x, ![field] = value]],
          ret |-> TRUE]
    ELSE [col |-> col, ret |-> FALSE]

\* the document replaced instead of updated with $set: the other fields are lost
update_user_setting_replace(col, user_id, field, value, ok) ==
    IF ok
    THEN [col |-> [col EXCEPT ![user_id] =
                       [NoDoc EXCEPT !.userId = user_id, ![field] = value]],
          ret |-> TRUE]
    ELSE [col |-> col, ret |-> FALSE]

\* update_user_setting: update_one with $set and upsert=True
update_user_setting(col, user_id, field, value, ok) ==
    IF ok
    THEN [col |-> [col EXCEPT ![user_id] =
                       [@ EXCEPT !.userId = user_id, ![field] = value]],
          ret |-> TRUE]
    ELSE [col |-> col, ret |-> FALSE]

\* a filter that matches no document: nothing is removed
delete_user_setting_no_match(col, user_id, field, ok) == [col |-> col, ret |-> ok]

\* delete_user_setting: update_one with $unset and no upsert
delete_user_setting(col, user_id, field, ok) ==
    IF ok
    THEN [col |-> [col EXCEPT ![user_id] =
                       IF @ = NoDoc THEN NoDoc ELSE [@ EXCEPT ![field] = Absent]],
          ret |-> TRUE]
    ELSE [col |-> col, ret |-> FALSE]

\* save_to_db: insert_one into the link log; a failed insert is swallowed
save_to_db(col, longURL, shortURL, ok) ==
    IF ok THEN Append(col, [longURL |-> longURL, shortURL |-> shortURL]) ELSE col

(***************************************************************************)
(* Caption builder.                                                        *)
(***************************************************************************)
NonEmpty(s) == s # <<>>

\* the links appended in KEEP mode too, after the original caption
build_caption_keep_links(shortened_links, original_caption, st) ==
    LET header == Strip(st.header)
        footer == Strip(st.footer)
        head == IF NonEmpty(header) THEN <<header>> ELSE <<>>
        foot == IF NonEmpty(footer) THEN <<footer>> ELSE <<>>
        body == IF original_caption # None /\ NonEmpty(Strip(original_caption))
                THEN <<Strip(original_caption)>> ELSE <<>>
    IN  IF st.caption_mode = RemoveMode THEN Join(head \o shortened_links \o foot)
        ELSE IF st.caption_mode = KeepMode THEN Join(head \o body \o shortened_links \o foot)
        ELSE Join(<<>>)

\* the links appended after the footer instead of before it
build_caption_links_last(shortened_links, original_caption, st) ==
    LET header == Strip(st.header)
        footer == Strip(st.footer)
        head == IF NonEmpty(header) THEN <<header>> ELSE <<>>
        foot == IF NonEmpty(footer) THEN <<footer>> ELSE <<>>
        body == IF original_caption # None /\ NonEmpty(Strip(original_caption))
                THEN <<Strip(original_caption)>> ELSE <<>>
    IN  IF st.caption_mode = RemoveMode THEN Join(head \o foot \o shortened_links)
        ELSE IF st.caption_mode = KeepMode THEN Join(head \o body \o foot)
        ELSE Join(<<>>)

build_caption(shortened_links, original_caption, st) ==
    LET mode == st.caption_mode
        header == Strip(st.header)
        footer == Strip(st.footer)
        head == IF NonEmpty(header) THEN <<header>> ELSE <<>>
        foot == IF NonEmpty(footer) THEN <<footer>> ELSE <<>>
        body == IF original_caption # None /\ NonEmpty(Strip(original_caption))
                THEN <<Strip(original_caption)>> ELSE <<>>
    IN  IF mode = RemoveMode THEN Join(head \o shortened_links \o foot)
        ELSE IF mode = KeepMode THEN Join(head \o body \o foot)
        ELSE Join(<<>>)

(***************************************************************************)
(* The shortening service and the outbound messaging calls.                *)
(***************************************************************************)
ShortenOutcomes == {"success", "success_empty", "failed"}

\* the short URL the service answers for a long one: "s/" and its last character
ShortOf(long_url) == <<"s", "/", long_url[Len(long_url)]>>

\* shorten_url: the shortened URL, the empty value of a success answer that
\* carries none, or None for any other answer, error or timeout
shorten_url(long_url, api_key, outcome) ==
    IF outcome = "success" THEN ShortOf(long_url)
    ELSE IF outcome = "success_empty" THEN <<>>
    ELSE None

\* Python truth of the value shorten_url returns
Truthy(v) == v # None /\ v # <<>>

\* send_message: one sendMessage call; delivered = FALSE is a call that raised
send_message(chat_id, kind, text, delivered) ==
    <<[op |-> "sendMessage", chat |-> chat_id, kind |-> kind, text |-> text,
       delivered |-> delivered]>>

NoMedia == "none"        \* a message without attachment, a type without endpoint

Endpoint(media_type) ==
    CASE media_type = "photo" -> "sendPhoto"
      [] media_type = "video" -> "sendVideo"
      [] media_type = "document" -> "sendDocument"
      [] media_type = "audio" -> "sendAudio"
      [] media_type = "voice" -> "sendVoice"
      [] media_type = "animation" -> "sendAnimation"
      [] OTHER -> NoMedia

\* every attachment sent on the photo endpoint
resend_media_as_photo(chat_id, media_type, caption, delivered) ==
    IF Endpoint(media_type) = NoMedia THEN <<>>
    ELSE <<[op |-> "sendPhoto", chat |-> chat_id, kind |-> "media",
            text |-> caption, delivered |-> delivered]>>

\* resend_media: one send call on the endpoint of the media type, none when
\* the type has no endpoint
resend_media(chat_id, media_type, caption, delivered) ==
    IF Endpoint(media_type) = NoMedia THEN <<>>
    ELSE <<[op |-> Endpoint(media_type), chat |-> chat_id, kind |-> "media",
            text |-> caption, delivered |-> delivered]>>

(***************************************************************************)
(* Command dispatch of process_message: the first branch of the if-chain   *)
(* that the trimmed text takes, with the argument the branch uses.         *)
(***************************************************************************)
CmdStart == <<"/", "s", "t", "a", "r", "t">>
CmdSetApi == <<"/", "s", "e", "t", "_", "a", "p", "i">>
CmdSetHeader == <<"/", "s", "e", "t", "_", "h", "e", "a", "d", "e", "r">>
CmdDeleteHeader == <<"/", "d", "e", "l", "e", "t", "e", "_", "h", "e", "a", "d", "e", "r">>
CmdSetFooter == <<"/", "s", "e", "t", "_", "f", "o", "o", "t", "e", "r">>
CmdDeleteFooter == <<"/", "d", "e", "l", "e", "t", "e", "_", "f", "o", "o", "t", "e", "r">>
CmdKeep == <<"/", "k", "e", "e", "p">>
CmdRemove == <<"/", "r", "e", "m", "o", "v", "e">>

\* len(parts) < 2 or not parts[1].strip(), for parts = text.split(maxsplit=1)
NoArgument(text) ==
    LET parts == SplitMax1(text)
    IN  Len(parts) < 2 \/ Strip(parts[2]) = <<>>

\* parts[1].strip()
Argument(text) == Strip(SplitMax1(text)[2])

\* the empty-argument tests left out: the command stores whatever follows its word
DispatchNoUsage(text) ==
    IF StartsWith(text, CmdStart) THEN [cmd |-> "start", arg |-> <<>>]
    ELSE IF StartsWith(text, CmdSetApi) THEN
        [cmd |-> "set_api", arg |-> Strip(SubSeq(text, Len(CmdSetApi) + 1, Len(text)))]
    ELSE IF StartsWith(text, CmdSetHeader) THEN
        [cmd |-> "set_header", arg |-> Strip(SubSeq(text, Len(CmdSetHeader) + 1, Len(text)))]
    ELSE IF StartsWith(text, CmdDeleteHeader) THEN [cmd |-> "delete_header", arg |-> <<>>]
    ELSE IF StartsWith(text, CmdSetFooter) THEN
        [cmd |-> "set_footer", arg |-> Strip(SubSeq(text, Len(CmdSetFooter) + 1, Len(text)))]
    ELSE IF StartsWith(text, CmdDeleteFooter) THEN [cmd |-> "delete_footer", arg |-> <<>>]
    ELSE IF text = CmdKeep THEN [cmd |-> "keep", arg |-> <<>>]
    ELSE IF text = CmdRemove THEN [cmd |-> "remove", arg |-> <<>>]
    ELSE [cmd |-> "default", arg |-> <<>>]

Dispatch(text) ==
    IF StartsWith(text, CmdStart) THEN [cmd |-> "start", arg |-> <<>>]
    ELSE IF StartsWith(text, CmdSetApi) THEN
        IF NoArgument(text) THEN [cmd |-> "usage_set_api", arg |-> <<>>]
        ELSE [cmd |-> "set_api", arg |-> Argument(text)]
    ELSE IF StartsWith(text, CmdSetHeader) THEN
        IF NoArgument(text) THEN [cmd |-> "usage_set_header", arg |-> <<>>]
        ELSE [cmd |-> "set_header", arg |-> Argument(text)]
    ELSE IF StartsWith(text, CmdDeleteHeader) THEN [cmd |-> "delete_header", arg |-> <<>>]
    ELSE IF StartsWith(text, CmdSetFooter) THEN
        IF NoArgument(text) THEN [cmd |-> "usage_set_footer", arg |-> <<>>]
        ELSE [cmd |-> "set_footer", arg |-> Argument(text)]
    ELSE IF StartsWith(text, CmdDeleteFooter) THEN [cmd |-> "delete_footer", arg |-> <<>>]
    ELSE IF text = CmdKeep THEN [cmd |-> "keep", arg |-> <<>>]
    ELSE IF text = CmdRemove THEN [cmd |-> "remove", arg |-> <<>>]
    ELSE [cmd |-> "default", arg |-> <<>>]

(***************************************************************************)
(* The inbound messages of the model.  wf = FALSE is a message object      *)
(* without "chat" or "from"; text and caption are <<>> when the message    *)
(* carries none (msg.get(..., "")).                                        *)
(***************************************************************************)
Msg(user, text, media, caption) ==
    [wf |-> TRUE, user |-> user, text |-> text, media |-> media, caption |-> caption]

TwoUrls == <<"a", " ", "h", "t", "t", "p", ":", "/", "/", "a", "\n", "h", "t", "t", "p", "s", ":", "/", "/", "b", " ">>
OneUrl == <<"h", "t", "t", "p", ":", "/", "/", "c">>
NoUrl == <<" ", "h", "i", " ">>

CommandTexts ==
    { <<"/", "s", "t", "a", "r", "t">>,
      <<"/", "s", "e", "t", "_", "a", "p", "i">>,
      <<"/", "s", "e", "t", "_", "a", "p", "i", " ", " ", "J", " ">>,
      <<"/", "s", "e", "t", "_", "h", "e", "a", "d", "e", "r">>,
      <<"/", "s", "e", "t", "_", "h", "e", "a", "d", "e", "r", " ", "X">>,
      <<" ", "/", "s", "e", "t", "_", "f", "o", "o", "t", "e", "r", " ">>,
      <<"/", "s", "e", "t", "_", "f", "o", "o", "t", "e", "r", " ", "Y">>,
      <<"/", "d", "e", "l", "e", "t", "e", "_", "h", "e", "a", "d", "e", "r">>,
      <<"/", "d", "e", "l", "e", "t", "e", "_", "f", "o", "o", "t", "e", "r">>,
      <<"/", "d", "e", "l", "e", "t", "e", "_", "h", "e", "a", "d", "e", "r", " ", "X">>,
      <<"/", "d", "e", "l", "e", "t", "e", "_", "f", "o", "o", "t", "e", "r", "s">>,
      <<"/", "k", "e", "e", "p">>,
      <<"/", "r", "e", "m", "o", "v", "e">> }

\* the configuration commands
CommandMessages ==
    { Msg(1, t, NoMedia, <<>>) : t \in CommandTexts }
    \cup { Msg(2, CmdSetApi, NoMedia, <<>>),
           Msg(2, <<"/", "s", "e", "t", "_", "h", "e", "a", "d", "e", "r", " ", "G">>,
               NoMedia, <<>>) }

\* a header command, a key command and default-path messages of the same
\* user, and a header command of another user
RaceMessages ==
    { Msg(1, <<"/", "s", "e", "t", "_", "h", "e", "a", "d", "e", "r", " ", "X">>,
          NoMedia, <<>>),
      Msg(1, <<"/", "s", "e", "t", "_", "a", "p", "i", " ", "J">>, NoMedia, <<>>),
      Msg(1, TwoUrls, NoMedia, <<>>),
      Msg(1, <<>>, "video", NoUrl),
      Msg(2, <<"/", "s", "e", "t", "_", "h", "e", "a", "d", "e", "r", " ", "G">>,
          NoMedia, <<>>) }

\* what the ingress is given: a message object without its fields, a command
\* and a media message with a URL
IngressMessages ==
    { [Msg(1, OneUrl, NoMedia, <<>>) EXCEPT !.wf = FALSE],
      Msg(1, CmdKeep, NoMedia, <<>>),
      Msg(1, <<>>, "photo", OneUrl) }

\* messages without a URL, of a user with and of a user without a footer
\* only, and a media message with one
NoUrlMessages ==
    { Msg(1, NoUrl, NoMedia, <<>>), Msg(1, <<>>, "video", NoUrl),
      Msg(2, <<>>, "video", NoUrl), Msg(2, <<>>, "photo", <<>>),
      Msg(1, <<>>, "photo", OneUrl) }

\* messages of the default path, and the command that gives a user a key
DefaultMessages ==
    { Msg(1, TwoUrls, NoMedia, <<>>), Msg(1, NoUrl, NoMedia, <<>>),
      Msg(1, <<>>, "photo", TwoUrls), Msg(1, <<>>, "video", NoUrl),
      Msg(1, <<>>, "sticker", OneUrl), Msg(1, <<>>, NoMedia, <<>>),
      Msg(1, <<"/", "s", "e", "t", "_", "a", "p", "i", " ", "J">>, NoMedia, <<>>) }

(***************************************************************************)
(* State.                                                                  *)
(***************************************************************************)
TaskIds == 1..MaxRequests

NoMsg == [wf |-> FALSE, user |-> 0, text |-> <<>>, media |-> NoMedia, caption |-> <<>>]

IdleTask ==
    [pc |-> "idle", msg |-> NoMsg, ack |-> 0, cmd |-> "none", api_key |-> None,
     settings |-> DefaultSettings, urls |-> <<>>, shortened |-> <<>>,
     calls |-> <<>>, saved |-> <<>>, out |-> <<>>, raised |-> FALSE, faults |-> {},
     reads |-> <<>>]

Doc(user, header, footer, mode) ==
    [userId |-> user, header |-> header, footer |-> footer, caption_mode |-> mode]

KeyK == <<"K">>

\* what the database holds when the process starts: nothing, or what earlier
\* runs of the bot have written
BootStores ==
    { [apis |-> [u \in Users |-> None], settings |-> [u \in Users |-> NoDoc]],
      [apis |-> [u \in Users |-> KeyK], settings |-> [u \in Users |-> NoDoc]],
      [apis |-> [u \in Users |-> KeyK],
       settings |-> (1 :> Doc(1, <<"H">>, <<"F">>, KeepMode)
                     @@ 2 :> Doc(2, <<"G">>, Absent, Absent))],
      [apis |-> [u \in Users |-> KeyK],
       settings |-> (1 :> Doc(1, <<"H">>, Absent, RemoveMode)
                     @@ 2 :> Doc(2, Absent, <<"F">>, KeepMode))] }

NoProbe ==
    [op |-> "none", user |-> 0, field |-> "none", value |-> None, before |-> None,
     ret |-> FALSE]

Init ==
    /\ boot \in BootStores
    /\ apis = boot.apis
    /\ settings = boot.settings
    /\ links = <<>>
    /\ total_requests = 0
    /\ last_activity = 0
    /\ resp = [path |-> "none", body |-> "none", status |-> 0,
               counted |-> FALSE, dispatched |-> FALSE]
    /\ tasks = [t \in TaskIds |-> IdleTask]
    /\ probe = NoProbe

(***************************************************************************)
(* WebhookHandler.do_POST.  The body of a request is one of                *)
(*   not_json        json.loads raises                                     *)
(*   scalar          a JSON number, true, false or null: the `in` test     *)
(*                   raises                                                *)
(*   string_message  a JSON string or array holding "message": the `in`    *)
(*                   test passes and update["message"] raises              *)
(*   no_message      a JSON object without "message"                       *)
(*   message         a JSON object with a "message"                        *)
(***************************************************************************)
Bodies == {"not_json", "scalar", "string_message", "no_message", "message"}

\* json.loads(post_data.decode('utf-8')) returns
Parses(body) == body # "not_json"

\* "message" in update evaluates to True
HasMessage(body) == body \in {"string_message", "message"}

\* the answer made to wait on the outcome of the message: 200 only when there
\* was nothing to process
PostStatusAfterProcessing(path, body) ==
    IF path # "token" THEN 404
    ELSE IF body = "no_message" THEN 200
    ELSE 500

\* the status code do_POST answers
PostStatus(path, body) ==
    IF path # "token" THEN 404
    ELSE IF body \in {"no_message", "message"} THEN 200
    ELSE 500

\* lines 78-79 are reached
Counted(path, body) == path = "token" /\ Parses(body) /\ body # "scalar" /\ HasMessage(body)

\* the thread of line 80 is started
Dispatched(path, body) == Counted(path, body) /\ body = "message"

DoPost(path, body, m) ==
    /\ Counted(path, body) => total_requests < MaxRequests
    /\ total_requests' = IF Counted(path, body) THEN total_requests + 1 ELSE total_requests
    /\ last_activity' = IF Counted(path, body) THEN total_requests + 1 ELSE last_activity
    /\ tasks' = IF Dispatched(path, body)
                THEN [tasks EXCEPT ![total_requests + 1] =
                         [IdleTask EXCEPT !.pc = "start", !.msg = m,
                                          !.ack = PostStatus(path, body)]]
                ELSE tasks
    /\ resp' = [path |-> path, body |-> body, status |-> PostStatus(path, body),
                counted |-> Counted(path, body), dispatched |-> Dispatched(path, body)]
    /\ UNCHANGED <<apis, settings, links, probe, boot>>

(***************************************************************************)
(* process_message.  A task takes one step per access to shared state:     *)
(*   ProcessStart   lines 304-428: the fields of the message, the command  *)
(*                  branches with their one storage write and reply, and   *)
(*                  on the default path the read of the API key            *)
(*   LoadSettings   lines 431-475: the read of the settings, the URL       *)
(*                  extraction and the branches that end without a         *)
(*                  shortening call                                        *)
(*   ShortenNext    lines 440-452 and 478-490: one turn of the loop, and   *)
(*                  after the last URL the reply                           *)
(* Every storage call, shortening call and outbound call is given its      *)
(* outcome; a call that raised is caught where the helper catches it.      *)
(***************************************************************************)
\* the calls that may raise: storage reads, storage writes of the commands,
\* inserts into the link log, outbound sends
FaultKinds == {"read", "write", "insert", "send"}

\* the outcomes of a call of kind k when the calls of the kinds F may raise
Outcomes(F, k) == IF k \in F THEN BOOLEAN ELSE {TRUE}

MediaTypes == {"photo", "video", "document", "audio", "voice", "animation"}

\* the store after a command branch, the reply it sends and whether it made
\* a storage write
Reply(a, s, kind, text, wrote) ==
    [apis |-> a, settings |-> s, kind |-> kind, text |-> text, wrote |-> wrote]

SetApi(user, a, s, key, ok) ==
    LET r == save_user_api_key(a, user, key, ok)
    IN  Reply(r.col, s, IF r.ret THEN "api_saved" ELSE "api_save_failed", <<>>, TRUE)

SetField(user, a, s, field, value, okKind, failKind, text, ok) ==
    LET r == update_user_setting(s, user, field, value, ok)
    IN  Reply(a, r.col, IF r.ret THEN okKind ELSE failKind,
              IF r.ret THEN text ELSE <<>>, TRUE)

DeleteField(user, a, s, field, okKind, failKind, ok) ==
    LET r == delete_user_setting(s, user, field, ok)
    IN  Reply(a, r.col, IF r.ret THEN okKind ELSE failKind, <<>>, TRUE)

\* lines 313-417: the branch of a command
CommandEffect(c, user, a, s, ok) ==
    CASE c.cmd = "start" -> Reply(a, s, "welcome", <<>>, FALSE)
      [] c.cmd = "usage_set_api" -> Reply(a, s, "usage_set_api", <<>>, FALSE)
      [] c.cmd = "set_api" -> SetApi(user, a, s, c.arg, ok)
      [] c.cmd = "usage_set_header" -> Reply(a, s, "usage_set_header", <<>>, FALSE)
      [] c.cmd = "set_header" ->
            SetField(user, a, s, "header", c.arg, "header_set", "header_save_failed",
                     c.arg, ok)
      [] c.cmd = "delete_header" ->
            DeleteField(user, a, s, "header", "header_removed", "header_remove_failed", ok)
      [] c.cmd = "usage_set_footer" -> Reply(a, s, "usage_set_footer", <<>>, FALSE)
      [] c.cmd = "set_footer" ->
            SetField(user, a, s, "footer", c.arg, "footer_set", "footer_save_failed",
                     c.arg, ok)
      [] c.cmd = "delete_footer" ->
            DeleteField(user, a, s, "footer", "footer_removed", "footer_remove_failed", ok)
      [] c.cmd = "keep" ->
            SetField(user, a, s, "caption_mode", KeepMode, "mode_keep", "mode_failed",
                     <<>>, ok)
      [] c.cmd = "remove" ->
            SetField(user, a, s, "caption_mode", RemoveMode, "mode_remove", "mode_failed",
                     <<>>, ok)

\* the test of line 421 left out: the task goes on without a key
HasKeyUnchecked(api_key) == TRUE

\* line 421: the test `not api_key` fails, the task has a key to work with
HasKey(api_key) == Truthy(api_key)

\* the statement outside the try block: the exception ends the thread
OnExceptionUncaught(task) == [task EXCEPT !.pc = "crashed", !.raised = TRUE]

\* try ... except Exception of process_message: where the task goes when a
\* statement of its body raises
OnException(task) == [task EXCEPT !.pc = "done", !.raised = TRUE]

Finish(task, out) == [task EXCEPT !.pc = "done", !.out = @ \o out]

ProcessStart(t, F) ==
    /\ tasks[t].pc = "start"
    /\ LET m == tasks[t].msg
           c == Dispatch(Strip(m.text))
       IN  IF ~m.wf
           THEN /\ tasks' = [tasks EXCEPT ![t] = OnException(@)]
                /\ UNCHANGED <<apis, settings>>
           ELSE IF c.cmd # "default"
           THEN \E ok \in Outcomes(F, "write"), delivered \in Outcomes(F, "send") :
                    LET e == CommandEffect(c, m.user, apis, settings, ok)
                    IN  /\ apis' = e.apis
                        /\ settings' = e.settings
                        /\ tasks' = [tasks EXCEPT ![t] =
                              Finish([@ EXCEPT !.cmd = c.cmd,
                                               !.faults = IF e.wrote /\ ~ok
                                                          THEN {"write"} ELSE {}],
                                     send_message(m.user, e.kind, e.text, delivered))]
           ELSE \E ok \in Outcomes(F, "read"), delivered \in Outcomes(F, "send") :
                    LET api_key == get_user_api_key(apis, m.user, ok)
                        task == [tasks[t] EXCEPT !.cmd = "default",
                                                 !.reads = Append(@, "api_key"),
                                                 !.faults = IF ok THEN {} ELSE {"key_read"}]
                    IN  /\ tasks' = [tasks EXCEPT ![t] =
                              IF ~HasKey(api_key)
                              THEN Finish(task, send_message(m.user, "api_key_not_set",
                                                             <<>>, delivered))
                              ELSE [task EXCEPT !.pc = "settings", !.api_key = api_key]]
                        /\ UNCHANGED <<apis, settings>>
    /\ UNCHANGED <<links, total_requests, last_activity, resp, probe, boot>>

\* the media type of lines 456-464, NoMedia when the message has none of them
MediaType(m) == IF m.media \in MediaTypes THEN m.media ELSE NoMedia

\* the text the URLs are taken from and that build_caption is given
Original(m) == IF Strip(m.text) # <<>> THEN Strip(m.text) ELSE m.caption

\* the test of line 472 left out: the media is resent whatever the settings
HeaderOrFooterAlways(st) == TRUE

\* line 472: settings["header"] or settings["footer"]
HeaderOrFooter(st) == st.header # <<>> \/ st.footer # <<>>

LoadSettings(t, F) ==
    /\ tasks[t].pc = "settings"
    /\ \E ok \in Outcomes(F, "read"), delivered \in Outcomes(F, "send") :
        LET m == tasks[t].msg
            st == get_user_settings(settings, m.user, ok)
            task == [tasks[t] EXCEPT !.settings = st,
                                     !.reads = Append(@, "settings"),
                                     !.faults = IF ok THEN @ ELSE @ \cup {"settings_read"}]
            text == Strip(m.text)
            urls == extract_urls(Original(m))
            new_caption == build_caption(<<>>, m.caption, st)
        IN  tasks' = [tasks EXCEPT ![t] =
                IF text # <<>>
                THEN IF urls = <<>> THEN Finish(task, <<>>)
                     ELSE [task EXCEPT !.pc = "shorten", !.urls = urls]
                ELSE IF MediaType(m) = NoMedia THEN Finish(task, <<>>)
                ELSE IF urls = <<>>
                THEN IF HeaderOrFooter(st)
                     THEN Finish(task, resend_media(m.user, MediaType(m),
                                     IF new_caption # <<>> THEN new_caption ELSE m.caption,
                                     delivered))
                     ELSE Finish(task, <<>>)
                ELSE [task EXCEPT !.pc = "shorten", !.urls = urls]]
    /\ UNCHANGED <<apis, settings, links, total_requests, last_activity, resp, probe, boot>>

\* the test of lines 447 and 485 left out: the reply is composed even when
\* no URL was shortened
FinalReplyAlwaysComposed(m, shortened_links, st, delivered) ==
    IF Strip(m.text) # <<>>
    THEN send_message(m.user, "composed",
                      build_caption(shortened_links, Original(m), st), delivered)
    ELSE resend_media(m.user, MediaType(m),
                      build_caption(shortened_links, Original(m), st), delivered)

\* the return after the notice left out: the task goes on to compose and send
FinalReplyAfterNotice(m, shortened_links, st, delivered) ==
    (IF shortened_links = <<>>
     THEN send_message(m.user, "could_not_shorten", <<>>, delivered)
     ELSE <<>>)
    \o (IF Strip(m.text) # <<>>
        THEN send_message(m.user, "composed",
                          build_caption(shortened_links, Original(m), st), delivered)
        ELSE resend_media(m.user, MediaType(m),
                          build_caption(shortened_links, Original(m), st), delivered))

\* lines 447-452 and 485-490: the reply after the loop
FinalReply(m, shortened_links, st, delivered) ==
    IF shortened_links = <<>>
    THEN send_message(m.user, "could_not_shorten", <<>>, delivered)
    ELSE IF Strip(m.text) # <<>>
    THEN send_message(m.user, "composed",
                      build_caption(shortened_links, Original(m), st), delivered)
    ELSE resend_media(m.user, MediaType(m),
                      build_caption(shortened_links, Original(m), st), delivered)

\* the key looked up again for every URL of the batch
KeyOfCallReread(task, col) == get_user_api_key(col, task.msg.user, TRUE)

\* lines 441 and 479: the api_key the task read on line 420
KeyOfCall(task, col) == task.api_key

\* the URL that could not be shortened kept in its long form
CollectOrOriginal(shortened_links, url, short) ==
    IF Truthy(short) THEN Append(shortened_links, short) ELSE Append(shortened_links, url)

\* lines 442-444 and 480-482: the short URL joins the list if it is truthy
Collect(shortened_links, url, short) ==
    IF Truthy(short) THEN Append(shortened_links, short) ELSE shortened_links

ShortenNext(t, F) ==
    /\ tasks[t].pc = "shorten"
    /\ \E outcome \in ShortenOutcomes, ok \in Outcomes(F, "insert"),
          delivered \in Outcomes(F, "send") :
        LET task == tasks[t]
            url == Head(task.urls)
            short == shorten_url(url, KeyOfCall(task, apis), outcome)
            good == Truthy(short)
            shortened_links == Collect(task.shortened, url, short)
            after == [task EXCEPT
                         !.urls = Tail(@),
                         !.calls = Append(@, [url |-> url, api_key |-> KeyOfCall(task, apis),
                                              short |-> short]),
                         !.shortened = shortened_links,
                         !.saved = IF good /\ ok
                                   THEN Append(@, [longURL |-> url, shortURL |-> short])
                                   ELSE @,
                         !.faults = IF good /\ ~ok THEN @ \cup {"insert"} ELSE @]
        IN  /\ links' = IF good THEN save_to_db(links, url, short, ok) ELSE links
            /\ tasks' = [tasks EXCEPT ![t] =
                  IF after.urls = <<>>
                  THEN Finish(after, FinalReply(task.msg, shortened_links,
                                                task.settings, delivered))
                  ELSE after]
    /\ UNCHANGED <<apis, settings, total_requests, last_activity, resp, probe, boot>>

\* the deliveries of the messages Msgs
Deliver(Msgs) == \E m \in Msgs : DoPost("token", "message", m)

\* Spec: the default path, with storage reads liable to raise
Next ==
    \/ Deliver(DefaultMessages)
    \/ \E t \in TaskIds : ProcessStart(t, {"read"})
    \/ \E t \in TaskIds : LoadSettings(t, {"read"})
    \/ \E t \in TaskIds : ShortenNext(t, {"read"})

Spec == Init /\ [][Next]_vars

\* NoUrlSpec: messages from which no URL is extracted, with storage reads
\* liable to raise
NoUrlNext ==
    \/ Deliver(NoUrlMessages)
    \/ \E t \in TaskIds : ProcessStart(t, {"read"})
    \/ \E t \in TaskIds : LoadSettings(t, {"read"})
    \/ \E t \in TaskIds : ShortenNext(t, {"read"})

NoUrlSpec == Init /\ [][NoUrlNext]_vars

\* CmdSpec: the configuration commands, with their storage writes liable to raise
CmdNext ==
    \/ Deliver(CommandMessages)
    \/ \E t \in TaskIds : ProcessStart(t, {"write"})

CmdSpec == Init /\ [][CmdNext]_vars

\* RaceSpec: a header command racing default-path tasks, with storage reads
\* and writes liable to raise
RaceNext ==
    \/ Deliver(RaceMessages)
    \/ \E t \in TaskIds : ProcessStart(t, {"read", "write"})
    \/ \E t \in TaskIds : LoadSettings(t, {"read", "write"})
    \/ \E t \in TaskIds : ShortenNext(t, {"read", "write"})

RaceSpec == Init /\ [][RaceNext]_vars

\* IngressSpec: every kind of POST, with every call of the tasks liable to raise
IngressNext ==
    \/ \E body \in Bodies :
          \E m \in (IF Dispatched("token", body) THEN IngressMessages ELSE {NoMsg}) :
              DoPost("token", body, m)
    \/ DoPost("other", "message", NoMsg)
    \/ \E t \in TaskIds : ProcessStart(t, FaultKinds)
    \/ \E t \in TaskIds : LoadSettings(t, FaultKinds)
    \/ \E t \in TaskIds : ShortenNext(t, FaultKinds)

IngressSpec == Init /\ [][IngressNext]_vars

\* FairTaskSpec: the tasks of the ingress messages on a database that holds a
\* key and a header for the user, with every call liable to raise.  A started
\* thread is scheduled, and each of its calls returns or raises within its
\* timeout: no task waits forever before its next step.
TaskInit == Init /\ boot.settings[1] = Doc(1, <<"H">>, Absent, RemoveMode)

TaskNext ==
    \/ Deliver(IngressMessages)
    \/ \E t \in TaskIds : ProcessStart(t, FaultKinds)
    \/ \E t \in TaskIds : LoadSettings(t, FaultKinds)
    \/ \E t \in TaskIds : ShortenNext(t, FaultKinds)

FairTaskSpec ==
    /\ TaskInit /\ [][TaskNext]_vars
    /\ \A t \in TaskIds :
          /\ WF_vars(ProcessStart(t, FaultKinds))
          /\ WF_vars(LoadSettings(t, FaultKinds))
          /\ WF_vars(ShortenNext(t, FaultKinds))

(***************************************************************************)
(* StoreSpec: the settings helpers called directly, in any order, for any  *)
(* user and field; probe holds the last call, the value the field had      *)
(* before it and what the call returned.                                   *)
(***************************************************************************)
FieldValues(field) ==
    CASE field = "header" -> {<<"H">>, <<"X">>}
      [] field = "footer" -> {<<"F">>}
      [] field = "caption_mode" -> {KeepMode, RemoveMode}

StoreSetField(user, field, value, ok) ==
    LET r == update_user_setting(settings, user, field, value, ok)
    IN  /\ settings' = r.col
        /\ probe' = [op |-> "setField", user |-> user, field |-> field, value |-> value,
                     before |-> settings[user][field], ret |-> r.ret]
        /\ UNCHANGED <<apis, links, total_requests, last_activity, resp, tasks, boot>>

StoreUnsetField(user, field, ok) ==
    LET r == delete_user_setting(settings, user, field, ok)
    IN  /\ settings' = r.col
        /\ probe' = [op |-> "unsetField", user |-> user, field |-> field, value |-> None,
                     before |-> settings[user][field], ret |-> r.ret]
        /\ UNCHANGED <<apis, links, total_requests, last_activity, resp, tasks, boot>>

StoreGetSettings(user, field, ok) ==
    /\ probe' = [op |-> "getSettings", user |-> user, field |-> field,
                 value |-> get_user_settings(settings, user, ok)[field],
                 before |-> settings[user][field], ret |-> ok]
    /\ UNCHANGED <<apis, settings, links, total_requests, last_activity, resp, tasks, boot>>

StoreNext ==
    \/ \E u \in Users, f \in Fields, ok \in BOOLEAN :
          \E v \in FieldValues(f) : StoreSetField(u, f, v, ok)
    \/ \E u \in Users, f \in Fields, ok \in BOOLEAN : StoreUnsetField(u, f, ok)
    \/ \E u \in Users, f \in Fields, ok \in BOOLEAN : StoreGetSettings(u, f, ok)

StoreSpec == Init /\ [][StoreNext]_vars

(***************************************************************************)
(* ComposeSpec: build_caption called directly; probe holds the arguments   *)
(* and the caption returned.                                               *)
(***************************************************************************)
ShortA == <<"s", "/", "a">>
ShortB == <<"s", "/", "b">>

ComposeLinks == {<<>>, <<ShortA>>, <<ShortA, ShortB>>, <<ShortB, ShortA>>, <<ShortA, ShortA>>}
ComposeCaptions == {None, <<>>, NoUrl, TwoUrls}
\* the headers and footers a settings record can hold: "" for a field that is
\* not set, or the trimmed, non-empty argument of /set_header or /set_footer
ComposeHeaders == {<<>>, <<"H">>, <<"H", " ", "I">>}
ComposeFooters == {<<>>, <<"F">>, <<"F", "\n", "G">>}

Compose(shortened_links, original_caption, st) ==
    /\ probe' = [op |-> "build_caption", links |-> shortened_links,
                 caption |-> original_caption, settings |-> st,
                 out |-> build_caption(shortened_links, original_caption, st)]
    /\ UNCHANGED <<apis, settings, links, total_requests, last_activity, resp, tasks, boot>>

ComposeNext ==
    \E l \in ComposeLinks, c \in ComposeCaptions, h \in ComposeHeaders,
       f \in ComposeFooters, mode \in {KeepMode, RemoveMode} :
        Compose(l, c, [header |-> h, footer |-> f, caption_mode |-> mode])

ComposeSpec == Init /\ [][ComposeNext]_vars

(***************************************************************************)
(* Properties.                                                             *)
(***************************************************************************)
\* the message is one of the default path: well formed, its text no command
OnDefaultPath(m) == m.wf /\ Dispatch(Strip(m.text)).cmd = "default"

\* the URLs of the message, in its text or its caption
UrlsOf(m) == extract_urls(Original(m))

\* task t takes its first step
Starts(t) == tasks[t].pc = "start" /\ tasks'[t].pc # "start"

\* the outbound calls of a task are exactly one sendMessage of this kind
OneReply(task, kind) ==
    /\ Len(task.out) = 1
    /\ task.out[1].op = "sendMessage"
    /\ task.out[1].kind = kind
    /\ task.out[1].chat = task.msg.user

\* C1: a default-path message with at least one URL, from a user who has no
\* stored API key when the task looks for it, ends the task there with exactly
\* one configuration-required reply, no shortening call and no LinkRecord
\* appended; and a task that is done makes no further call.
C1_NoKeyNoShortening ==
    [][\A t \in TaskIds :
          /\ ( /\ Starts(t)
               /\ OnDefaultPath(tasks[t].msg)
               /\ UrlsOf(tasks[t].msg) # <<>>
               /\ apis[tasks[t].msg.user] = None )
             => /\ tasks'[t].pc = "done"
                /\ OneReply(tasks'[t], "api_key_not_set")
                /\ tasks'[t].calls = <<>>
                /\ tasks'[t].saved = <<>>
                /\ links' = links
          /\ tasks[t].pc = "done" => tasks'[t] = tasks[t]]_vars

C1_Witness ==
    \E t \in TaskIds :
        /\ tasks[t].pc = "done"
        /\ OnDefaultPath(tasks[t].msg)
        /\ Len(UrlsOf(tasks[t].msg)) = 2
        /\ apis[tasks[t].msg.user] = None
        /\ OneReply(tasks[t], "api_key_not_set")
        /\ tasks[t].calls = <<>>
        /\ links = <<>>

\* every shortening call of the task returned nothing usable
AllFailed(task) == \A i \in 1..Len(task.calls) : ~Truthy(task.calls[i].short)

\* C2: a default-path task (text or media caption, KEEP or REMOVE mode) with a
\* stored key and n >= 1 URLs whose n shortening calls all fail delivers
\* exactly one "could not shorten" reply, nothing composed and no media, and
\* none of its calls appends a LinkRecord.
C2_AllFailed ==
    [][\A t \in TaskIds :
          /\ ( /\ tasks[t].pc = "shorten"
               /\ Len(tasks'[t].calls) = Len(tasks[t].calls) + 1
               /\ ~Truthy(tasks'[t].calls[Len(tasks'[t].calls)].short) )
             => links' = links /\ tasks'[t].saved = tasks[t].saved
          /\ ( /\ tasks[t].pc = "shorten"
               /\ tasks'[t].pc = "done"
               /\ AllFailed(tasks'[t]) )
             => /\ Len(tasks'[t].calls) = Len(UrlsOf(tasks[t].msg))
                /\ OneReply(tasks'[t], "could_not_shorten")
                /\ tasks'[t].saved = <<>>]_vars

C2_Witness ==
    \E t \in TaskIds :
        /\ tasks[t].pc = "done"
        /\ tasks[t].msg.media = "photo"
        /\ tasks[t].settings.caption_mode = KeepMode
        /\ Len(tasks[t].calls) = 2
        /\ AllFailed(tasks[t])
        /\ OneReply(tasks[t], "could_not_shorten")
        /\ links = <<>>

UsageKind(text) ==
    CASE text = CmdSetApi -> "usage_set_api"
      [] text = CmdSetHeader -> "usage_set_header"
      [] text = CmdSetFooter -> "usage_set_footer"

\* C3: a /set_api, /set_header or /set_footer message with nothing after the
\* command word gets exactly one usage reply, and the step leaves the
\* credential store and the settings store as they were for every user: the
\* key stored before is the key getApiKey returns after.
C3_UsageNoMutation ==
    [][\A t \in TaskIds :
          ( /\ Starts(t)
            /\ tasks[t].msg.wf
            /\ Strip(tasks[t].msg.text) \in {CmdSetApi, CmdSetHeader, CmdSetFooter} )
          => /\ tasks'[t].pc = "done"
             /\ OneReply(tasks'[t], UsageKind(Strip(tasks[t].msg.text)))
             /\ apis' = apis
             /\ settings' = settings
             /\ \A u \in Users :
                   get_user_api_key(apis', u, TRUE) = get_user_api_key(apis, u, TRUE)]_vars

C3_Witness ==
    \E t \in TaskIds :
        /\ tasks[t].pc = "done"
        /\ Strip(tasks[t].msg.text) = CmdSetApi
        /\ OneReply(tasks[t], "usage_set_api")
        /\ get_user_api_key(apis, tasks[t].msg.user, TRUE) = KeyK
        /\ settings = boot.settings
        /\ settings[tasks[t].msg.user].header = <<"H">>

\* the settings record a read of this document yields
RecordOf(doc) == get_user_settings([u \in Users |-> doc], 1, TRUE)

SettingsCommands ==
    {"set_header", "delete_header", "set_footer", "delete_footer", "keep", "remove"}

\* tasks w and r are a /set_header task whose write went through and a
\* default-path task of the same user that read key and settings without a
\* storage fault; both are done and no other task has written the user's
\* settings
RaceOver(w, r) ==
    /\ w # r
    /\ tasks[w].pc = "done" /\ tasks[w].cmd = "set_header"
    /\ "write" \notin tasks[w].faults
    /\ tasks[r].pc = "done" /\ tasks[r].cmd = "default"
    /\ tasks[r].msg.user = tasks[w].msg.user
    /\ tasks[r].api_key # None /\ tasks[r].faults = {}
    /\ \A o \in TaskIds \ {w, r} :
          \/ tasks[o].pc \in {"idle", "start"}
          \/ tasks[o].msg.user # tasks[w].msg.user
          \/ tasks[o].cmd \notin SettingsCommands

\* C4: when a /set_header task and a default-path task of the same user have
\* both completed, in whatever order their steps interleaved, the user's
\* settings document is the document of before with the new header (footer and
\* caption mode as they were), and the record the default-path task read, from
\* which its reply is composed, is the record of the document before the write
\* or of the document after it.
C4_HeaderRace ==
    \A w, r \in TaskIds :
        RaceOver(w, r) =>
            LET u == tasks[w].msg.user
                before == boot.settings[u]
                after == [before EXCEPT !.userId = u,
                                        !.header = Argument(Strip(tasks[w].msg.text))]
            IN  /\ settings[u] = after
                /\ tasks[r].settings \in {RecordOf(before), RecordOf(after)}
                /\ \A i \in 1..Len(tasks[r].out) :
                      tasks[r].out[i].kind \in {"composed", "media"} =>
                          tasks[r].out[i].text =
                              build_caption(tasks[r].shortened, Original(tasks[r].msg),
                                            tasks[r].settings)

\* the default-path task read the document before the header write and
\* replied from it
C4_Witness ==
    \E w, r \in TaskIds :
        /\ RaceOver(w, r)
        /\ boot.settings[1] = Doc(1, <<"H">>, <<"F">>, KeepMode)
        /\ settings[1] = Doc(1, <<"X">>, <<"F">>, KeepMode)
        /\ tasks[r].settings = RecordOf(boot.settings[1])
        /\ Len(tasks[r].out) = 1
        /\ tasks[r].out[1].kind = "composed"

\* C5: after any sequence of settings operations that ends with an
\* unsetField(user, field) that went through, getSettings(user) returns the
\* default of the field (empty header, empty footer, mode REMOVE), whatever
\* the field held before and also when the user has no document.
C5_UnsetReadsDefault ==
    (probe.op = "unsetField" /\ probe.ret) =>
        /\ get_user_settings(settings, probe.user, TRUE)[probe.field]
              = DefaultSettings[probe.field]
        /\ get_user_settings(settings, probe.user, FALSE)[probe.field]
              = DefaultSettings[probe.field]

\* the mode was KEEP, beside a header and a footer, and has been unset
C5_Witness ==
    /\ probe.op = "unsetField" /\ probe.ret
    /\ probe.field = "caption_mode" /\ probe.before = KeepMode
    /\ settings[probe.user].header = <<"X">>
    /\ settings[probe.user].footer = <<"F">>
    /\ get_user_settings(settings, probe.user, TRUE).caption_mode = RemoveMode

\* C6: setField(user, field, value) changes the named field of that user's
\* settings document and nothing else: the user's two other fields, the
\* documents of the other users, the credential store and the link log stay
\* as they were.
C6_SetFieldFrame ==
    [][probe'.op = "setField" =>
          /\ \A g \in Fields \ {probe'.field} :
                settings'[probe'.user][g] = settings[probe'.user][g]
          /\ \A u \in Users \ {probe'.user} : settings'[u] = settings[u]
          /\ apis' = apis
          /\ links' = links
          /\ settings'[probe'.user][probe'.field] =
                IF probe'.ret THEN probe'.value ELSE settings[probe'.user][probe'.field]
       ]_vars

\* a header replaced in a document that holds a footer and a mode, beside
\* another user's document
C6_Witness ==
    /\ probe.op = "setField" /\ probe.ret
    /\ probe.user = 1 /\ probe.field = "header"
    /\ probe.before = <<"H">> /\ probe.value = <<"X">>
    /\ settings[1] = Doc(1, <<"X">>, <<"F">>, KeepMode)
    /\ settings[2] = Doc(2, <<"G">>, Absent, Absent)
    /\ apis = boot.apis

\* a body that is a JSON object, with or without a message
ValidBodies == {"no_message", "message"}

\* C7: every POST to the webhook path with a structurally valid body is
\* answered 200; the answer is made in the step that starts the task, before
\* the task has taken a step, and the acknowledgment of a delivery stays 200
\* whatever its task does later (it replies, a call of it raises, it sends
\* nothing).
C7_AckBeforeProcessing ==
    [][/\ (resp'.path = "token" /\ resp'.body \in ValidBodies) => resp'.status = 200
       /\ \A t \in TaskIds :
             /\ (tasks[t].pc = "idle" /\ tasks'[t].pc # "idle")
                   => /\ tasks'[t].pc = "start"
                      /\ resp'.body = "message" /\ resp'.status = 200
                      /\ tasks'[t].ack = 200
             /\ tasks[t].pc # "idle" => tasks'[t].ack = 200]_vars

\* one delivery was answered 200 and its task ended on an exception; the next
\* is answered 200 while its task has not taken a step
C7_Witness ==
    /\ tasks[1].pc = "done" /\ tasks[1].raised /\ tasks[1].ack = 200
    /\ tasks[2].pc = "start" /\ tasks[2].ack = 200
    /\ resp.body = "message" /\ resp.status = 200

\* a body that is no JSON object: not JSON at all, or a JSON scalar or string
MalformedBodies == {"not_json", "scalar", "string_message"}

\* C8: a POST to the webhook path with a malformed body is answered with a
\* client error (4xx), starts no task and leaves the request counters as they
\* were.
C8_MalformedRejected ==
    (resp.path = "token" /\ resp.body \in MalformedBodies) =>
        /\ resp.status \in 400..499
        /\ ~resp.dispatched
        /\ ~resp.counted

\* C9: no failure inside a task escapes process_message: a task whose message
\* lacks its fields, or whose storage, shortening or outbound calls fail, is
\* never anywhere but in its steps or done, every started task ends done, and
\* the ingress can take a delivery in every state, whatever the tasks do.
C9_NoEscape ==
    /\ [](\A t \in TaskIds : tasks[t].pc \in {"idle", "start", "settings", "shorten", "done"})
    /\ \A t \in TaskIds : (tasks[t].pc # "idle") ~> (tasks[t].pc = "done")
    /\ [](ENABLED DoPost("token", "no_message", NoMsg))
    /\ [](total_requests < MaxRequests
             => \A m \in IngressMessages : ENABLED DoPost("token", "message", m))

\* a task ended on the exception of a message without fields; a later
\* delivery was acknowledged and its task ended after a failed insert and an
\* undelivered reply
C9_Witness ==
    \E t, o \in TaskIds :
        /\ tasks[t].pc = "done" /\ tasks[t].raised /\ tasks[t].out = <<>>
        /\ tasks[o].pc = "done" /\ "insert" \in tasks[o].faults
        /\ Len(tasks[o].out) = 1 /\ ~tasks[o].out[1].delivered
        /\ t < o /\ tasks[o].ack = 200

\* the one-line list of a string that is not empty, the empty list otherwise
IfNonEmpty(x) == IF x # <<>> THEN <<x>> ELSE <<>>

StoredTextsTrimmed ==
    \A u \in Users : \A f \in {"header", "footer"} :
        settings[u][f] # Absent => settings[u][f] # <<>> /\ Strip(settings[u][f]) = settings[u][f]

\* the trimmed original caption as a one-line list, the empty list when the
\* message has no caption or a blank one
TrimmedIfNonEmpty(c) == IF c = None THEN <<>> ELSE IfNonEmpty(Strip(c))

MediaBearing(m) == m.wf /\ m.media \in MediaTypes /\ Strip(m.text) = <<>>

\* task t takes the step that reads the settings
ReadsSettings(t) == tasks[t].pc = "settings" /\ tasks'[t].pc # "settings"

\* C12: when a task that holds the user's API key comes to a media-bearing
\* message whose caption has no URL, and the user has neither header nor
\* footer stored, the task ends there with no outbound call at all, no
\* shortening call and nothing written to any store.
C12_SilentMedia ==
    [][\A t \in TaskIds :
          ( /\ ReadsSettings(t)
            /\ MediaBearing(tasks[t].msg)
            /\ UrlsOf(tasks[t].msg) = <<>>
            /\ settings[tasks[t].msg.user].header = Absent
            /\ settings[tasks[t].msg.user].footer = Absent )
          => /\ tasks'[t].pc = "done"
             /\ tasks'[t].out = <<>>
             /\ tasks'[t].calls = <<>>
             /\ tasks'[t].saved = <<>>
             /\ ~tasks'[t].raised
             /\ links' = links /\ apis' = apis /\ settings' = settings]_vars

C12_Witness ==
    \E t \in TaskIds :
        /\ tasks[t].pc = "done"
        /\ tasks[t].msg = Msg(1, <<>>, "video", NoUrl)
        /\ tasks[t].api_key = KeyK
        /\ tasks[t].faults = {}
        /\ settings[1] = NoDoc
        /\ tasks[t].out = <<>>
        /\ links = <<>>

\* the task is done, was on the default path with the user's key in hand, and
\* its message has no URL
DoneWithoutUrls(task) ==
    /\ task.pc = "done"
    /\ OnDefaultPath(task.msg)
    /\ task.api_key # None
    /\ UrlsOf(task.msg) = <<>>

\* C13 as claimed: on the default path with a stored API key, a message from
\* which no URL is extracted is ignored whatever the settings are: the task
\* makes no outbound call of any kind.
C13_NoUrlsIgnored ==
    \A t \in TaskIds : DoneWithoutUrls(tasks[t]) => tasks[t].out = <<>>

\* the caption of the resend of lines 473-474: new_caption or original_caption
WrappedCaption(m, st) ==
    IF build_caption(<<>>, m.caption, st) # <<>>
    THEN build_caption(<<>>, m.caption, st)
    ELSE m.caption

\* C13 amended: on the default path with the API key in hand, a message
\* from which no URL is extracted leads to no shortening call and no
\* LinkRecord, and to no outbound call either unless it is media-bearing and
\* the settings the task read hold a non-empty header or footer; that message
\* is resent once on the endpoint of its media type, its caption wrapped by
\* build_caption with no links.
C13_NoUrlsIgnoredUnlessWrapped ==
    \A t \in TaskIds :
        DoneWithoutUrls(tasks[t]) =>
            /\ tasks[t].calls = <<>> /\ tasks[t].saved = <<>>
            /\ IF /\ MediaBearing(tasks[t].msg)
                  /\ (tasks[t].settings.header # <<>> \/ tasks[t].settings.footer # <<>>)
               THEN /\ Len(tasks[t].out) = 1
                    /\ tasks[t].out[1].op = Endpoint(tasks[t].msg.media)
                    /\ tasks[t].out[1].chat = tasks[t].msg.user
                    /\ tasks[t].out[1].text = WrappedCaption(tasks[t].msg, tasks[t].settings)
               ELSE tasks[t].out = <<>>

\* a video without URL of a user whose record holds a footer only, in KEEP
\* mode, was resent with caption and footer; a text without URL was ignored
C13_Witness ==
    \E t, o \in TaskIds :
        /\ DoneWithoutUrls(tasks[t])
        /\ tasks[t].msg = Msg(2, <<>>, "video", NoUrl)
        /\ tasks[t].settings = [header |-> <<>>, footer |-> <<"F">>, caption_mode |-> KeepMode]
        /\ Len(tasks[t].out) = 1
        /\ tasks[t].out[1].op = "sendVideo"
        /\ tasks[t].out[1].text = <<"h", "i", "\n", "F">>
        /\ DoneWithoutUrls(tasks[o])
        /\ tasks[o].msg = Msg(1, NoUrl, NoMedia, <<>>)
        /\ tasks[o].out = <<>>

\* C14: the dispatcher takes the unsetField branch of the header only for a
\* trimmed text that is exactly /delete_header, and that of the footer only
\* for exactly /delete_footer; the step of a task whose text starts with one
\* of the two commands and goes on leaves the user's field as it was.
C14_DeleteOnlyExact ==
    [][\A t \in TaskIds :
          (Starts(t) /\ tasks[t].msg.wf) =>
              LET text == Strip(tasks[t].msg.text)
                  u == tasks[t].msg.user
              IN  /\ tasks'[t].cmd = "delete_header" => text = CmdDeleteHeader
                  /\ tasks'[t].cmd = "delete_footer" => text = CmdDeleteFooter
                  /\ (StartsWith(text, CmdDeleteHeader) /\ text # CmdDeleteHeader)
                        => settings'[u].header = settings[u].header
                  /\ (StartsWith(text, CmdDeleteFooter) /\ text # CmdDeleteFooter)
                        => settings'[u].footer = settings[u].footer]_vars

\* the LinkRecord of a shortening call
RecordOfCall(c) == [longURL |-> c.url, shortURL |-> c.short]

\* the reply of the task carries its shortened links and was delivered
RepliedWithLinks(task) ==
    /\ task.pc = "done"
    /\ task.settings.caption_mode = RemoveMode
    /\ task.out # <<>>
    /\ task.out[1].kind \in {"composed", "media"}
    /\ task.out[1].delivered

\* C15: every step leaves the LinkRecords of the log as they were and in
\* place; the step of a default-path task that makes a shortening call
\* appends the LinkRecord of that call if it succeeded and nothing otherwise,
\* so that the log grows by one record per successful call, in URL order and
\* before the reply, which follows the last call; and every shortened link of
\* a delivered reply has its LinkRecord in the log.
C15_LinkLog ==
    [][/\ Len(links') >= Len(links)
       /\ SubSeq(links', 1, Len(links)) = links
       /\ \A t \in TaskIds :
             /\ (tasks[t].pc = "shorten" /\ tasks'[t] # tasks[t]) =>
                    LET c == tasks'[t].calls[Len(tasks'[t].calls)]
                    IN  links' = IF Truthy(c.short) THEN Append(links, RecordOfCall(c))
                                 ELSE links
             /\ RepliedWithLinks(tasks'[t]) =>
                    \A i \in 1..Len(tasks'[t].shortened) :
                        \E j \in 1..Len(links') :
                            links'[j].shortURL = tasks'[t].shortened[i]]_vars

\* the short URLs of the calls that succeeded, in call order
SuccessShorts(calls) ==
    LET good == SelectSeq(calls, LAMBDA c : Truthy(c.short))
    IN  [i \in 1..Len(good) |-> good[i].short]

\* the task is done after a batch in REMOVE mode of which a call succeeded
PartialSuccess(task) ==
    /\ task.pc = "done"
    /\ task.cmd = "default"
    /\ task.settings.caption_mode = RemoveMode
    /\ ~AllFailed(task)

\* C16: a default-path task in REMOVE mode whose message has n URLs, of which
\* k >= 1 were shortened, has made one call per URL in message order and
\* exactly one outbound call: the reply (text) or the resend (media) whose
\* lines are the header if set, the k short URLs in the order of their source
\* URLs and the footer if set, with no line for a failed URL and no notice.
C16_PartialSuccess ==
    \A t \in TaskIds :
        PartialSuccess(tasks[t]) =>
            LET task == tasks[t]
                urls == UrlsOf(task.msg)
            IN  /\ Len(task.calls) = Len(urls)
                /\ \A i \in 1..Len(urls) : task.calls[i].url = urls[i]
                /\ Len(task.out) = 1
                /\ task.out[1].op = IF Strip(task.msg.text) # <<>> THEN "sendMessage"
                                    ELSE Endpoint(task.msg.media)
                /\ task.out[1].kind \in {"composed", "media"}
                /\ task.out[1].text = Join(IfNonEmpty(task.settings.header)
                                           \o SuccessShorts(task.calls)
                                           \o IfNonEmpty(task.settings.footer))

\* of the two URLs of a text the first failed and the second was shortened
C16_Witness ==
    \E t \in TaskIds :
        /\ PartialSuccess(tasks[t])
        /\ tasks[t].msg = Msg(1, TwoUrls, NoMedia, <<>>)
        /\ tasks[t].settings.header = <<"H">>
        /\ ~Truthy(tasks[t].calls[1].short)
        /\ tasks[t].calls[2].short = ShortB
        /\ tasks[t].out[1].text = <<"H", "\n", "s", "/", "b">>

\* the failure reply of a configuration command
FailureKind(cmd) ==
    CASE cmd = "set_api" -> "api_save_failed"
      [] cmd = "set_header" -> "header_save_failed"
      [] cmd = "delete_header" -> "header_remove_failed"
      [] cmd = "set_footer" -> "footer_save_failed"
      [] cmd = "delete_footer" -> "footer_remove_failed"
      [] cmd \in {"keep", "remove"} -> "mode_failed"

WriteCommands ==
    {"set_api", "set_header", "delete_header", "set_footer", "delete_footer", "keep", "remove"}

\* the storage write of task t is made in this step and raises
WriteFails(t) ==
    /\ Starts(t)
    /\ tasks'[t].cmd \in WriteCommands
    /\ "write" \in tasks'[t].faults

\* C17: when the storage write of a configuration command raises, the task
\* ends with exactly one reply, the failure notice of that command and no
\* success reply, and the step leaves every stored key and every settings
\* document as it was.
C17_WriteFailureReported ==
    [][\A t \in TaskIds :
          WriteFails(t) =>
              /\ tasks'[t].pc = "done"
              /\ OneReply(tasks'[t], FailureKind(tasks'[t].cmd))
              /\ ~tasks'[t].raised
              /\ apis' = apis
              /\ settings' = settings]_vars

\* a /set_api and a /delete_header ended on a failed write with their failure
\* notices, the key and the header of the user stored as at the start
C17_Witness ==
    /\ \A c \in {"set_api", "delete_header"} :
          \E t \in TaskIds :
              /\ tasks[t].pc = "done" /\ tasks[t].cmd = c
              /\ tasks[t].faults = {"write"}
              /\ OneReply(tasks[t], FailureKind(c))
    /\ boot.settings[1].header = <<"H">>
    /\ apis = boot.apis /\ settings = boot.settings

\* the task goes on to the shortening loop: it has a text with URLs, or an
\* attachment it can resend whose caption has URLs
HasWork(m) ==
    /\ UrlsOf(m) # <<>>
    /\ Strip(m.text) # <<>> \/ m.media \in MediaTypes

\* C18: a read of the API key that raises ends the task like a missing key,
\* with the one configuration-required reply and no shortening call; a read of
\* the settings that raises gives the task the all-defaults record (no header,
\* no footer, REMOVE) and the task goes on as with any record: to the loop
\* when there is work, and its reply is the plain list of the short URLs.  No
\* exception is raised in the task in either case.
C18_ReadFailureDegrades ==
    [][\A t \in TaskIds :
          /\ (Starts(t) /\ "key_read" \in tasks'[t].faults) =>
                /\ tasks'[t].pc = "done"
                /\ OneReply(tasks'[t], "api_key_not_set")
                /\ tasks'[t].calls = <<>>
                /\ ~tasks'[t].raised
                /\ links' = links
          /\ (ReadsSettings(t) /\ "settings_read" \in tasks'[t].faults) =>
                /\ tasks'[t].settings = DefaultSettings
                /\ ~tasks'[t].raised
                /\ IF HasWork(tasks[t].msg)
                   THEN tasks'[t].pc = "shorten" /\ tasks'[t].urls = UrlsOf(tasks[t].msg)
                   ELSE tasks'[t].pc = "done" /\ tasks'[t].out = <<>>
          /\ ( /\ tasks'[t].pc = "done"
               /\ "settings_read" \in tasks'[t].faults
               /\ ~AllFailed(tasks'[t]) ) =>
                /\ ~tasks'[t].raised
                /\ Len(tasks'[t].out) = 1
                /\ tasks'[t].out[1].text = Join(SuccessShorts(tasks'[t].calls))]_vars

\* with key, header and footer stored in KEEP mode, one task lost the read of
\* the key and sent the notice, another lost the read of the settings and
\* replied with the two short URLs alone
C18_Witness ==
    \E t, o \in TaskIds :
        /\ apis[1] = KeyK
        /\ settings[1] = Doc(1, <<"H">>, <<"F">>, KeepMode)
        /\ tasks[t].pc = "done" /\ tasks[t].faults = {"key_read"}
        /\ UrlsOf(tasks[t].msg) # <<>>
        /\ OneReply(tasks[t], "api_key_not_set")
        /\ tasks[o].pc = "done" /\ tasks[o].faults = {"settings_read"}
        /\ tasks[o].msg = Msg(1, TwoUrls, NoMedia, <<>>)
        /\ tasks[o].out[1].text = <<"s", "/", "a", "\n", "s", "/", "b">>

\* the task has entered the shortening loop
InBatch(task) == task.pc = "shorten" \/ (task.pc = "done" /\ task.calls # <<>>)

\* C19: a default-path task that is in its shortening loop or past it has read
\* the API key once and then the settings once, both before its first
\* shortening call; no step taken while it is in the loop, its own or another
\* task's /set_api or /set_header, changes the key or the record it holds;
\* every call it has made carries that key, and its reply is build_caption of
\* that record.
C19_ReadOnce ==
    [][\A t \in TaskIds :
          /\ (tasks[t].calls = <<>> /\ tasks'[t].calls # <<>>) =>
                tasks[t].reads = <<"api_key", "settings">>
          /\ InBatch(tasks'[t]) =>
                /\ tasks'[t].reads = <<"api_key", "settings">>
                /\ \A i \in 1..Len(tasks'[t].calls) :
                      tasks'[t].calls[i].api_key = tasks'[t].api_key
                /\ \A i \in 1..Len(tasks'[t].out) :
                      tasks'[t].out[i].kind \in {"composed", "media"} =>
                          tasks'[t].out[i].text =
                              build_caption(tasks'[t].shortened, Original(tasks'[t].msg),
                                            tasks'[t].settings)
          /\ tasks[t].pc = "shorten" =>
                /\ tasks'[t].api_key = tasks[t].api_key
                /\ tasks'[t].settings = tasks[t].settings]_vars

\* a task shortened its two URLs with the key it had read, and replied from
\* the record it had read, while /set_api gave the user another key
C19_Witness ==
    \E t, o \in TaskIds :
        /\ tasks[t].pc = "done"
        /\ tasks[t].msg = Msg(1, TwoUrls, NoMedia, <<>>)
        /\ Len(tasks[t].calls) = 2
        /\ tasks[t].calls[1].api_key = KeyK /\ tasks[t].calls[2].api_key = KeyK
        /\ tasks[t].out[1].kind = "composed"
        /\ tasks[o].pc = "done" /\ tasks[o].cmd = "set_api" /\ tasks[o].faults = {}
        /\ apis[1] = <<"J">>

\* C20: a task makes at most one outbound call, a sendMessage or the resend
\* of the attachment, for its message, whatever path it takes: a command, a
\* missing key, no URL, every call failed, or a reply with links.
C20_AtMostOneOutbound ==
    \A t \in TaskIds :
        /\ Len(tasks[t].out) <= 1
        /\ \A i \in 1..Len(tasks[t].out) :
              /\ tasks[t].out[i].chat = tasks[t].msg.user
              /\ tasks[t].out[i].op \in {"sendMessage", Endpoint(tasks[t].msg.media)}

\* a photo whose two calls failed was answered by the one notice, and a
\* command by its one reply
C20_Witness ==
    \E t, o \in TaskIds :
        /\ tasks[t].pc = "done"
        /\ tasks[t].msg = Msg(1, <<>>, "photo", TwoUrls)
        /\ Len(tasks[t].calls) = 2 /\ AllFailed(tasks[t])
        /\ Len(tasks[t].out) = 1
        /\ tasks[o].pc = "done" /\ tasks[o].cmd = "set_api"
        /\ Len(tasks[o].out) = 1

====
